---- MODULE Spec2Model ----
(***************************************************************************)
(* Model of app.py: the position-based timetable scan                       *)
(* (parse_timetable_pdf), the selection filter and the main panel.          *)
(*                                                                         *)
(* A text (Python str) is a sequence of one-character strings, so that the  *)
(* regular expression, str.lower, str.replace, str.strip, the f-string key  *)
(* and the lexical sort of the Time column are computed character by        *)
(* character, as the code computes them.                                    *)
(***************************************************************************)
EXTENDS Integers, Sequences, FiniteSets, TLC

(* ------------------------------------------------------------------ *)
(* Python str primitives                                                *)
(* ------------------------------------------------------------------ *)

\* The characters of the model in code point order (tab, newline, then the
\* printable ASCII range without the grave accent): Python compares str
\* values by code point.
Ascii ==
    <<"\t","\n"," ","!","\"","#","$","%","&","'","(",")","*","+",",","-",".","/",
      "0","1","2","3","4","5","6","7","8","9",":",";","<","=",">","?","@",
      "A","B","C","D","E","F","G","H","I","J","K","L","M",
      "N","O","P","Q","R","S","T","U","V","W","X","Y","Z",
      "[","\\","]","^","_",
      "a","b","c","d","e","f","g","h","i","j","k","l","m",
      "n","o","p","q","r","s","t","u","v","w","x","y","z",
      "{","|","}","~">>

UpperChars ==
    <<"A","B","C","D","E","F","G","H","I","J","K","L","M",
      "N","O","P","Q","R","S","T","U","V","W","X","Y","Z">>

LowerChars ==
    <<"a","b","c","d","e","f","g","h","i","j","k","l","m",
      "n","o","p","q","r","s","t","u","v","w","x","y","z">>

DigitChars == <<"0","1","2","3","4","5","6","7","8","9">>

Range(s) == { s[i] : i \in 1..Len(s) }

\* Position of every character in the code point order.
OrdMap == [c \in Range(Ascii) |-> CHOOSE i \in 1..Len(Ascii) : Ascii[i] = c]

Ord(c) == OrdMap[c]

\* str.lower() on every character: A..Z become a..z, the rest is kept.
LowerMap ==
    [c \in Range(Ascii) |->
        IF c \in Range(UpperChars)
        THEN LowerChars[CHOOSE i \in 1..Len(UpperChars) : UpperChars[i] = c]
        ELSE c]

LowerChar(c) == LowerMap[c]

Lower(text) == [i \in 1..Len(text) |-> LowerChar(text[i])]

\* `needle in hay` for two str values.
Contains(hay, needle) ==
    \E i \in 0..(Len(hay) - Len(needle)) :
        \A j \in 1..Len(needle) : hay[i + j] = needle[j]

\* str.replace(old, new) for a one-character old; new is a text.
RECURSIVE Replace(_, _, _)
Replace(text, old, new) ==
    IF text = <<>> THEN <<>>
    ELSE (IF Head(text) = old THEN new ELSE <<Head(text)>>)
         \o Replace(Tail(text), old, new)

\* Characters str.strip() and the regular expression's \s treat as blank.
Whitespace == {" ", "\t", "\n"}

\* str.strip(): drop leading and trailing whitespace.
Strip(text) ==
    LET keep == { i \in 1..Len(text) : text[i] \notin Whitespace }
    IN  IF keep = {} THEN <<>>
        ELSE SubSeq(text,
                    CHOOSE i \in keep : \A j \in keep : i <= j,
                    CHOOSE i \in keep : \A j \in keep : j <= i)

\* a < b for two str values (lexicographic by code point).
StrLess(a, b) ==
    LET n == IF Len(a) < Len(b) THEN Len(a) ELSE Len(b)
        d == { i \in 1..n : a[i] # b[i] }
    IN  IF d = {} THEN Len(a) < Len(b)
        ELSE LET k == CHOOSE i \in d : \A j \in d : i <= j
             IN  Ord(a[k]) < Ord(b[k])

\* int(s) for a text of decimal digits.
RECURSIVE ParseInt(_)
ParseInt(s) ==
    IF s = <<>> THEN 0
    ELSE 10 * ParseInt(SubSeq(s, 1, Len(s) - 1)) + (Ord(s[Len(s)]) - Ord("0"))

(* ------------------------------------------------------------------ *)
(* CLASS_PATTERN                                                        *)
(* ------------------------------------------------------------------ *)

\* Python's None.
None == <<>>

AlnumClass == Range(UpperChars) \cup Range(DigitChars)     \* [A-Z0-9]
DigitClass == Range(DigitChars)                             \* \d
\* A variant of FacultyClass that leaves out the slash of co-taught slots.
FacultyClass_LettersOnly == Range(UpperChars)

FacultyClass == Range(UpperChars) \cup {"/"}                \* [A-Z/]

\* First position at or after i whose character is not in class: where a
\* greedy run of the class that starts at i ends.
RECURSIVE RunEnd(_, _, _)
RunEnd(text, i, class) ==
    IF i <= Len(text) /\ text[i] \in class
    THEN RunEnd(text, i + 1, class)
    ELSE i

\* Whether text has character c at position i.
At(text, i, c) == i <= Len(text) /\ text[i] = c

\* First position at or after i that holds c, or 0: the lazy (.*?) followed
\* by a literal stops at the first occurrence.
RECURSIVE FirstAt(_, _, _)
FirstAt(text, i, c) ==
    IF i > Len(text) THEN 0
    ELSE IF text[i] = c THEN i
    ELSE FirstAt(text, i + 1, c)

\* CLASS_PATTERN anchored at position i:
\*   ([A-Z0-9]+)-([A-Z0-9]+)\((\d+)\)-([A-Z/]+)\s*\{(.*?)\}
\* Each greedy run is followed by a literal outside its class, so the only
\* run that can match is the longest one, and the lazy venue ends at the
\* first "}". The text holds no newline (line 94 removes them before the
\* search), so "." matches every character of it. The result is None, or
\* the five groups and the position after the match.
MatchAt(text, i) ==
    LET e1 == RunEnd(text, i, AlnumClass)
        e2 == RunEnd(text, e1 + 1, AlnumClass)
        e3 == RunEnd(text, e2 + 1, DigitClass)
        e4 == RunEnd(text, e3 + 2, FacultyClass)
        e5 == RunEnd(text, e4, Whitespace)
        e6 == FirstAt(text, e5 + 1, "}")
    IN  IF /\ e1 > i  /\ At(text, e1, "-")
           /\ e2 > e1 + 1 /\ At(text, e2, "(")
           /\ e3 > e2 + 1 /\ At(text, e3, ")") /\ At(text, e3 + 1, "-")
           /\ e4 > e3 + 2
           /\ At(text, e5, "{")
           /\ e6 > 0
        THEN [groups |-> << SubSeq(text, i, e1 - 1),
                            SubSeq(text, e1 + 1, e2 - 1),
                            SubSeq(text, e2 + 1, e3 - 1),
                            SubSeq(text, e3 + 2, e4 - 1),
                            SubSeq(text, e5 + 1, e6 - 1) >>,
              end |-> e6 + 1]
        ELSE None

\* CLASS_PATTERN.search from position i on: the leftmost match.
RECURSIVE SearchFrom(_, _)
SearchFrom(text, i) ==
    IF i > Len(text) THEN None
    ELSE LET m == MatchAt(text, i)
         IN  IF m # None THEN m ELSE SearchFrom(text, i + 1)

\* CLASS_PATTERN.search(text)
Search(text) == SearchFrom(text, 1)

(* ------------------------------------------------------------------ *)
(* Tables of parse_timetable_pdf                                        *)
(* ------------------------------------------------------------------ *)

\* time_slots: (x_start, x_end, time_slot_label)
time_slots ==
    << <<130, 230, <<"9",":","3","0","-","1","0",":","4","5"," ","a","m">>>>,
       <<250, 350, <<"1","1",":","0","0"," ","a","m","-","1","2",":","1","5"," ","p","m">>>>,
       <<370, 480, <<"1","2",":","3","0"," ","-"," ","0","1",":","4","5"," ","p","m">>>>,
       <<500, 600, <<"0","2",":","3","0"," ","-"," ","3",":","4","5"," ","p","m">>>>,
       <<620, 720, <<"4",":","0","0","-","5",":","1","5"," ","p","m">>>>,
       <<740, 840, <<"5",":","4","5","-","7",":","0","0"," ","p","m">>>>,
       <<860, 960, <<"7",":","1","5","-","8",":","3","0"," ","p","m">>>> >>

days ==
    << <<"M","o","n">>, <<"T","u","e">>, <<"W","e","d">>, <<"T","h","u">>, <<"F","r","i">>, <<"S","a","t">>, <<"S","u","n">> >>

\* The str "Unknown": the first current_day and the fallback time slot.
Unknown == <<"U","n","k","n","o","w","n">>

\* pandas' missing value: what a Categorical holds for a value outside its
\* categories. It is no str.
NaN == <<"NaN">>

(* ------------------------------------------------------------------ *)
(* The course catalog and the selectable keys                           *)
(* ------------------------------------------------------------------ *)

\* The rows of the 'Course and Sections' CSV as read by pd.read_csv.
csv_rows ==
    << [Abbriviation |-> <<" ","M","F","S"," ">>,
        Sections |-> <<" ","A"," ",",">>,
        CourseName |-> <<"F","i","n","\n","M","k","t">>],
       [Abbriviation |-> <<"A","1">>,
        Sections |-> <<"B","2">>,
        CourseName |-> <<"A","l","g","o">>] >>

\* load_course_data: the Abbriviation column is stripped.
load_course_data ==
    [i \in 1..Len(csv_rows) |->
        [csv_rows[i] EXCEPT !.Abbriviation = Strip(csv_rows[i].Abbriviation)]]

\* str.split(sep) for a one-character separator.
RECURSIVE Split(_, _)
Split(text, sep) ==
    LET k == FirstAt(text, 1, sep)
    IN  IF k = 0 THEN <<text>>
        ELSE <<SubSeq(text, 1, k - 1)>> \o Split(SubSeq(text, k + 1, Len(text)), sep)

\* f"{abbr}-{sec}"
KeyOf(abbr, sec) == abbr \o <<"-">> \o sec

\* generate_selectable_courses: one 'Course-Section' key per non-blank
\* section of each row. (The list is sorted for display; the selection made
\* from it is used as a set.)
generate_selectable_courses(df) ==
    UNION { { KeyOf(df[i].Abbriviation, Strip(sec)) :
                sec \in { s \in Range(Split(df[i].Sections, ",")) : Strip(s) # <<>> } } :
            i \in 1..Len(df) }

(* ------------------------------------------------------------------ *)
(* Steps of parse_timetable_pdf                                         *)
(* ------------------------------------------------------------------ *)

\* A variant of DetectDay whose loop has no break: the last day of `days`
\* that occurs in the word wins.
RECURSIVE DetectDay_LastWins(_, _, _)
DetectDay_LastWins(word_text, k, current) ==
    IF k > Len(days) THEN current
    ELSE DetectDay_LastWins(word_text, k + 1,
             IF Contains(Lower(word_text), Lower(days[k])) THEN days[k]
             ELSE current)

\* Lines 88-91: the first day of `days` whose lower-cased name occurs in
\* the lower-cased word becomes the current day; otherwise it is kept.
RECURSIVE DetectDay(_, _, _)
DetectDay(word_text, k, current) ==
    IF k > Len(days) THEN current
    ELSE IF Contains(Lower(word_text), Lower(days[k])) THEN days[k]
    ELSE DetectDay(word_text, k + 1, current)

\* A variant of ResolveTimeSlot whose comparison includes the bounds.
RECURSIVE ResolveTimeSlot_Inclusive(_, _)
ResolveTimeSlot_Inclusive(x0, k) ==
    IF k > Len(time_slots) THEN Unknown
    ELSE IF time_slots[k][1] <= x0 /\ x0 <= time_slots[k][2] THEN time_slots[k][3]
    ELSE ResolveTimeSlot_Inclusive(x0, k + 1)

\* Lines 99-103: the label of the first column with x_start < x0 < x_end,
\* "Unknown" when there is none.
RECURSIVE ResolveTimeSlot(_, _)
ResolveTimeSlot(x0, k) ==
    IF k > Len(time_slots) THEN Unknown
    ELSE IF time_slots[k][1] < x0 /\ x0 < time_slots[k][2] THEN time_slots[k][3]
    ELSE ResolveTimeSlot(x0, k + 1)

\* Lines 106-107: the Course Name of the first catalog row with this
\* abbreviation, the abbreviation itself when there is none.
CourseName(course_df, abbr) ==
    LET hits == { i \in 1..Len(course_df) : course_df[i].Abbriviation = abbr }
    IN  IF hits = {} THEN abbr
        ELSE course_df[CHOOSE i \in hits : \A j \in hits : i <= j].CourseName

\* Lines 96-119: the record appended for a match.
ClassRecord(groups, x0, current, course_df) ==
    [ Day          |-> current,
      Time         |-> ResolveTimeSlot(x0, 1),
      CourseName   |-> Replace(CourseName(course_df, groups[1]), "\n", <<" ">>),
      Abbreviation |-> groups[1],
      Section      |-> groups[2],
      Session      |-> ParseInt(groups[3]),
      Faculty      |-> groups[4],
      Venue        |-> Strip(groups[5]),
      Key          |-> KeyOf(groups[1], groups[2]) ]

\* Line 94: the match of the word with its newlines removed.
MatchWord(word_text) == Search(Replace(word_text, "\n", <<>>))

\* Lines 94-119: the records one word adds to all_classes.
EmitFor(w, current, course_df) ==
    LET m == MatchWord(w.text)
    IN  IF m = None THEN <<>>
        ELSE << ClassRecord(m.groups, w.x0, current, course_df) >>

\* Line 126: the days present in the Day column, in the order of `days`.
DayOrder(rows) ==
    SelectSeq(days, LAMBDA d : \E i \in 1..Len(rows) : rows[i].Day = d)

\* Line 127: pd.Categorical keeps a value that is one of the categories and
\* turns any other value into NaN.
Categorical(rows, categories) ==
    [i \in 1..Len(rows) |->
        [rows[i] EXCEPT !.Day = IF rows[i].Day \in Range(categories)
                                THEN rows[i].Day ELSE NaN]]

\* Position of a Day value in the categories; NaN sorts last.
DayCode(day, categories) ==
    IF day = NaN THEN Len(categories) + 1
    ELSE CHOOSE k \in 1..Len(categories) : categories[k] = day

\* Line 128: the sort key is (Day, Time): Day by category position, Time by
\* str comparison, the column being a column of str.
RowLess(a, b, categories) ==
    \/ DayCode(a.Day, categories) < DayCode(b.Day, categories)
    \/ /\ DayCode(a.Day, categories) = DayCode(b.Day, categories)
       /\ StrLess(a.Time, b.Time)

\* Insert row r behind the rows that are not greater than it.
RECURSIVE InsertRow(_, _, _)
InsertRow(r, sorted, categories) ==
    IF sorted = <<>> THEN <<r>>
    ELSE IF RowLess(r, Head(sorted), categories) THEN <<r>> \o sorted
    ELSE <<Head(sorted)>> \o InsertRow(r, Tail(sorted), categories)

\* Line 128: df.sort_values(by=['Day', 'Time']). pandas sorts on several
\* keys with a stable sort, so rows with equal keys keep their order.
RECURSIVE SortValues(_, _)
SortValues(rows, categories) ==
    IF rows = <<>> THEN <<>>
    ELSE InsertRow(rows[Len(rows)],
                   SortValues(SubSeq(rows, 1, Len(rows) - 1), categories),
                   categories)

\* Lines 121-128: what parse_timetable_pdf returns for all_classes.
ParseResult(classes) ==
    IF classes = <<>> THEN <<>>
    ELSE SortValues(Categorical(classes, DayOrder(classes)), DayOrder(classes))

(* ------------------------------------------------------------------ *)
(* The main panel                                                       *)
(* ------------------------------------------------------------------ *)

\* A variant of RunCondition that does not look at the selection.
RunCondition_AnySelection(pdf, courses, course_df) ==
    pdf /\ course_df # None

\* Line 181: `uploaded_pdf and my_courses and course_df is not None`.
RunCondition(pdf, courses, course_df) ==
    pdf /\ courses # {} /\ course_df # None

\* A variant of FilterSchedule that keeps the first record of each key only.
FilterSchedule_DropDuplicates(schedule, courses) ==
    LET firsts == { i \in 1..Len(schedule) :
                      \A j \in 1..(i - 1) : schedule[j].Key # schedule[i].Key }
        kept == SelectSeq([i \in 1..Len(schedule) |-> i],
                          LAMBDA i : i \in firsts /\ schedule[i].Key \in courses)
    IN  [k \in 1..Len(kept) |-> schedule[kept[k]]]

\* Line 191: schedule_df[schedule_df['Key'].isin(my_courses)]
FilterSchedule(schedule, courses) ==
    SelectSeq(schedule, LAMBDA r : r.Key \in courses)

\* Line 198: my_schedule_df['Day'].unique(), in order of first appearance.
RECURSIVE UniqueDays(_)
UniqueDays(rows) ==
    IF rows = <<>> THEN <<>>
    ELSE LET before == UniqueDays(SubSeq(rows, 1, Len(rows) - 1))
             d == rows[Len(rows)].Day
         IN  IF d \in Range(before) THEN before ELSE Append(before, d)

\* Line 197: the displayed columns of a row.
DisplayCols(r) ==
    [ Time |-> r.Time, CourseName |-> r.CourseName, Faculty |-> r.Faculty,
      Venue |-> r.Venue, Session |-> r.Session ]

\* Line 202: the rows with Day == day. NaN is equal to nothing, itself
\* included.
DayTable(rows, day) ==
    LET hit == SelectSeq(rows, LAMBDA r : day # NaN /\ r.Day = day)
    IN  [i \in 1..Len(hit) |-> DisplayCols(hit[i])]

\* Lines 200-203: one subheader and one table per day of the schedule.
RenderTables(rows) ==
    LET ds == UniqueDays(rows)
    IN  [i \in 1..Len(ds) |-> [day |-> ds[i], rows |-> DayTable(rows, ds[i])]]

\* A variant of RunMessages that reports an empty filtered schedule like an
\* empty extraction.
RunMessages_OneReport(schedule, mine) ==
    IF schedule = <<>> \/ mine = <<>>
    THEN {"error: no class information in the PDF"}
    ELSE {"success: timetable ready"}

\* Lines 193-207: the messages of a run.
RunMessages(schedule, mine) ==
    IF schedule = <<>> THEN {"error: no class information in the PDF"}
    ELSE {"success: timetable ready"}
         \cup (IF mine = <<>> THEN {"warning: no classes for selected courses"}
               ELSE {})

\* Lines 209-215: the messages when the run condition fails.
ButtonMessages(clicked, csv_file, course_df, courses, pdf) ==
    IF ~clicked THEN {}
    ELSE IF ~csv_file /\ course_df = None THEN {"error: upload the CSV first"}
    ELSE IF courses = {} THEN {"warning: select your courses"}
    ELSE IF ~pdf THEN {"warning: upload the PDF"}
    ELSE {}

(* ------------------------------------------------------------------ *)
(* Inputs                                                               *)
(* ------------------------------------------------------------------ *)

\* Bounds of the scanned document.
MaxPages == 2
MaxWords == 3
MaxTokenWords == 1

Word(x0, text) == [x0 |-> x0, text |-> text]

\* A small timetable vocabulary: a plain day word, a day word in mixed case
\* that names two days, and class tokens in different columns, one of them
\* with a day name in its course code.
WordPool ==
    { Word(40, <<"F","r","i">>),
      Word(40, <<"F","R","I","w","e","d">>),
      Word(140, <<"M","F","S","-","A","(","6",")","-","A","B","{","C","1","}">>),
      Word(260, <<"M","F","S","-","A","(","6",")","-","A","B","{","C","1","}">>),
      Word(1000, <<"A","1","-","B","2","(","0","7",")","-","A","P","/","P","D"," ","{","L"," ","3","}">>),
      Word(510, <<"S","A","T","-","X","(","1",")","-","Q","{","R","}">>) }

\* The class token grammar CODE-SEC(N)-FAC{VENUE}, written out: a token is
\* the concatenation of its five parts and the punctuation between them.
Render(p) ==
    p.code \o <<"-">> \o p.sec \o <<"(">> \o p.n \o <<")">> \o <<"-">>
    \o p.fac \o <<"{">> \o p.venue \o <<"}">>

\* Parts of valid tokens: codes and sections over [A-Z0-9], session numbers
\* with and without a leading zero, a single and a co-taught faculty, and
\* venues without "}": plain, blank-padded, empty, and with a newline inside.
TokenParts ==
    [ code  : { <<"M","F","S">>, <<"A","1">> },
      sec   : { <<"A">>, <<"B","2">> },
      n     : { <<"6">>, <<"0","7">> },
      fac   : { <<"A","B">>, <<"A","P","/","P","D">> },
      venue : { <<"C","1">>, <<" ","L"," ","3"," ">>, <<>>, <<"L","\n","3">> } ]

\* Left coordinates on, next to and between the column bounds.
XPool ==
    { 130, 131, 229, 230, 240, 250, 251, 400, 550, 700, 800, 861, 959, 960,
      1000 }

\* The word of the position-based example of the specification.
ExampleText == <<"S","M","M","T","-","E","x","c","(","1",")","-","A","P","/","P","D","{","L","a","b"," ","3","}">>

\* Two tokens in one word.
DoubleText == <<"M","F","S","-","A","(","6",")","-","A","B","{","C","1","}","A","1","-","B","2","(","0","7",")","-","A","P","/","P","D","{","L","3","}">>

\* Words for the token claims: every valid token in the first column, one
\* token at every coordinate of XPool, the example word in and right of the
\* columns, a word holding two tokens, and words that are no token.
TokenWords ==
    { Word(140, Render(p)) : p \in TokenParts }
    \cup { Word(x, <<"M","F","S","-","A","(","6",")","-","A","B","{","C","1","}">>) : x \in XPool }
    \cup { Word(140, ExampleText), Word(1000, ExampleText),
           Word(140, DoubleText),
           Word(140, <<"m","f","s","-","a","(","6",")","-","a","b","{","c","1","}">>),
           Word(40, <<"M","o","n">>) }

VARIABLES
    course_data_file,   \* whether a CSV was uploaded in the sidebar
    course_df,          \* the loaded catalog, or None
    my_courses,         \* the selected keys (None and [] are both empty)
    uploaded_pdf,       \* whether a PDF was uploaded
    button,             \* whether "Generate My Timetable" was clicked (line 209)
    pc,                 \* "main", "scan", "parsed" or "done"
    doc,                \* the pages loaded so far, each the words scanned of it
    word,               \* the word of the current iteration, or None
    match,              \* the match of the current iteration, or None
    current_day,
    all_classes,
    schedule_df,        \* what parse_timetable_pdf returned
    my_schedule_df,     \* the filtered schedule
    tables,             \* the subheaders and tables displayed
    messages            \* the st.success / st.warning / st.error texts shown

vars ==
    << course_data_file, course_df, my_courses, uploaded_pdf, button, pc, doc,
       word, match, current_day, all_classes, schedule_df, my_schedule_df,
       tables, messages >>

inputs == << course_data_file, course_df, my_courses, uploaded_pdf >>

\* All words scanned so far, in scan order.
RECURSIVE Flat(_)
Flat(pages) ==
    IF pages = <<>> THEN <<>>
    ELSE Flat(SubSeq(pages, 1, Len(pages) - 1)) \o pages[Len(pages)]

\* The script's state when the main panel is reached: the sidebar has set
\* course_df and my_courses (lines 137-174), the uploader uploaded_pdf.
\* my_courses is a selection from the selectable keys, and stays None when
\* no catalog is loaded.
SidebarDone(selections) ==
    /\ course_data_file \in BOOLEAN
    /\ course_df \in {None, load_course_data}
    /\ my_courses \in (IF course_df = None THEN {{}} ELSE selections)
    /\ uploaded_pdf \in BOOLEAN
    /\ button = FALSE
    /\ pc = "main"
    /\ doc = <<>>
    /\ word = None
    /\ match = None
    /\ current_day = None
    /\ all_classes = <<>>
    /\ schedule_df = <<>>
    /\ my_schedule_df = <<>>
    /\ tables = <<>>
    /\ messages = {}

Init == SidebarDone(SUBSET generate_selectable_courses(load_course_data))

\* Lines 181-187 and 58-77: the run condition holds and parse_timetable_pdf
\* starts.
StartParse ==
    /\ pc = "main"
    /\ RunCondition(uploaded_pdf, my_courses, course_df)
    /\ pc' = "scan"
    /\ all_classes' = <<>>
    /\ current_day' = Unknown
    /\ UNCHANGED << inputs, button, doc, word, match, schedule_df,
                    my_schedule_df, tables, messages >>

\* Lines 209-215: the run condition fails; the button is rendered and,
\* clicked or not, decides the message.
NoRun(clicked) ==
    /\ pc = "main"
    /\ ~RunCondition(uploaded_pdf, my_courses, course_df)
    /\ button' = clicked
    /\ messages' = ButtonMessages(clicked, course_data_file, course_df,
                                  my_courses, uploaded_pdf)
    /\ pc' = "done"
    /\ UNCHANGED << inputs, doc, word, match, current_day, all_classes,
                    schedule_df, my_schedule_df, tables >>

\* Lines 79-81: the next page is loaded; current_day is left alone.
LoadPage ==
    /\ pc = "scan"
    /\ Len(doc) < MaxPages
    /\ doc' = Append(doc, <<>>)
    /\ UNCHANGED << inputs, button, pc, word, match, current_day, all_classes,
                    schedule_df, my_schedule_df, tables, messages >>

\* Lines 83-119: one iteration of the word loop on the current page.
ScanWord(w) ==
    /\ pc = "scan"
    /\ doc # <<>>
    /\ doc' = [doc EXCEPT ![Len(doc)] = Append(@, w)]
    /\ word' = w
    /\ current_day' = DetectDay(w.text, 1, current_day)
    /\ match' = MatchWord(w.text)
    /\ all_classes' = all_classes \o EmitFor(w, current_day', course_df)
    /\ UNCHANGED << inputs, button, pc, schedule_df, my_schedule_df, tables,
                    messages >>

\* Lines 121-128: the loops are over and the result is returned.
FinishParse ==
    /\ pc = "scan"
    /\ schedule_df' = ParseResult(all_classes)
    /\ pc' = "parsed"
    /\ UNCHANGED << inputs, button, doc, word, match, current_day, all_classes,
                    my_schedule_df, tables, messages >>

\* Lines 189-207: filter, report and display.
Display ==
    /\ pc = "parsed"
    /\ my_schedule_df' = IF schedule_df = <<>> THEN <<>>
                         ELSE FilterSchedule(schedule_df, my_courses)
    /\ tables' = RenderTables(my_schedule_df')
    /\ messages' = RunMessages(schedule_df, my_schedule_df')
    /\ pc' = "done"
    /\ UNCHANGED << inputs, button, doc, word, match, current_day, all_classes,
                    schedule_df >>

\* The next word of the current page, drawn from the timetable vocabulary.
ScanTimetableWord ==
    /\ Len(Flat(doc)) < MaxWords
    /\ \E w \in WordPool : ScanWord(w)

\* The button is rendered; it is clicked or not.
NoRunButton == \E clicked \in BOOLEAN : NoRun(clicked)

Next ==
    \/ StartParse
    \/ NoRunButton
    \/ LoadPage
    \/ ScanTimetableWord
    \/ FinishParse
    \/ Display

Spec == Init /\ [][Next]_vars
\* The same program on the vocabulary of the token claims.
InitTokens == SidebarDone({ {}, generate_selectable_courses(load_course_data) })

\* The next word of the current page, drawn from the token vocabulary.
ScanTokenWord ==
    /\ Len(Flat(doc)) < MaxTokenWords
    /\ \E w \in TokenWords : ScanWord(w)

NextTokens ==
    \/ StartParse
    \/ NoRunButton
    \/ LoadPage
    \/ ScanTokenWord
    \/ FinishParse
    \/ Display

SpecTokens == InitTokens /\ [][NextTokens]_vars
(* ------------------------------------------------------------------ *)
(* Properties                                                           *)
(* ------------------------------------------------------------------ *)

Last(seq) == seq[Len(seq)]

\* The number of elements of the set of positions idx that are <= i.
Rank(idx, i) == Cardinality({ j \in idx : j <= i })

\* The (course code, section) pairs of the catalog.
CatalogPairs(df) ==
    UNION { { << df[i].Abbriviation, Strip(sec) >> :
                sec \in { s \in Range(Split(df[i].Sections, ",")) : Strip(s) # <<>> } } :
            i \in 1..Len(df) }

\* The (course code, section) pairs the selection stands for.
SelectedPairs ==
    IF course_df = None THEN {}
    ELSE { p \in CatalogPairs(course_df) : KeyOf(p[1], p[2]) \in my_courses }

\* C1: once the main panel is done, the filtered schedule is the returned
\* schedule restricted to the records whose (course code, section) is a
\* selected pair: it has one record per such record, duplicates included,
\* and the k-th of them is the k-th such record of the returned schedule.
C1_FilterIsRestriction ==
    pc = "done" =>
        LET selected == SelectedPairs
            idx == { i \in 1..Len(schedule_df) :
                       << schedule_df[i].Abbreviation, schedule_df[i].Section >>
                           \in selected }
        IN  /\ Len(my_schedule_df) = Cardinality(idx)
            /\ \A i \in idx : my_schedule_df[Rank(idx, i)] = schedule_df[i]

\* C1 witness: a run whose returned schedule starts with a record that is not
\* selected, and whose filtered schedule keeps two records of one key.
C1_Witness ==
    /\ pc = "done"
    /\ Len(schedule_df) = 3
    /\ schedule_df[1].Key \notin my_courses
    /\ Len(my_schedule_df) = 2
    /\ my_schedule_df[1].Key = my_schedule_df[2].Key
    /\ my_schedule_df[1] # my_schedule_df[2]

\* C2 (as claimed): every record of all_classes and of the returned schedule
\* carries one of the days Mon..Sun, a token scanned before any day word
\* having been dropped.
C2_UnorientedTokenDropped ==
    /\ \A i \in 1..Len(all_classes) : all_classes[i].Day \in Range(days)
    /\ \A i \in 1..Len(schedule_df) : schedule_df[i].Day \in Range(days)

\* Position of a day in Mon..Sun, of a label in the slot catalog.
DayIndex(d) == CHOOSE k \in 1..Len(days) : days[k] = d
SlotIndex(l) == CHOOSE k \in 1..Len(time_slots) : time_slots[k][3] = l
SlotLabels == { time_slots[k][3] : k \in 1..Len(time_slots) }

\* C3 (as claimed): in the returned schedule, of any two records that both
\* carry a day of Mon..Sun and a label of the slot catalog, the earlier one
\* has the earlier day, or the same day and no later slot of the catalog.
C3_SortedByDayThenCatalogSlot ==
    pc \in {"parsed", "done"} =>
        \A i, j \in 1..Len(schedule_df) :
            ( /\ i < j
              /\ schedule_df[i].Day \in Range(days)
              /\ schedule_df[j].Day \in Range(days)
              /\ schedule_df[i].Time \in SlotLabels
              /\ schedule_df[j].Time \in SlotLabels )
            => \/ DayIndex(schedule_df[i].Day) < DayIndex(schedule_df[j].Day)
               \/ /\ schedule_df[i].Day = schedule_df[j].Day
                  /\ SlotIndex(schedule_df[i].Time) <= SlotIndex(schedule_df[j].Time)

NothingFound == "error: no class information in the PDF"
NoneSelected == "warning: no classes for selected courses"

\* C4: a run (the run condition held and the document was parsed) that
\* extracted no session reports NothingFound and not NoneSelected; a run that
\* extracted sessions none of whose keys is selected reports NoneSelected and
\* not NothingFound; the two are never reported together.
C4_DistinctEmptyReports ==
    /\ ~(NothingFound \in messages /\ NoneSelected \in messages)
    /\ (pc = "done" /\ RunCondition(uploaded_pdf, my_courses, course_df)) =>
          /\ all_classes = <<>> =>
                (NothingFound \in messages /\ NoneSelected \notin messages)
          /\ ( /\ all_classes # <<>>
               /\ \A i \in 1..Len(all_classes) : all_classes[i].Key \notin my_courses )
             => (NoneSelected \in messages /\ NothingFound \notin messages)
          /\ (\E i \in 1..Len(all_classes) : all_classes[i].Key \in my_courses)
             => (NoneSelected \notin messages /\ NothingFound \notin messages)

\* C4 witness: a finished run with sessions none of which is selected.
C4_Witness ==
    /\ pc = "done"
    /\ all_classes # <<>>
    /\ \A i \in 1..Len(all_classes) : all_classes[i].Key \notin my_courses
    /\ NoneSelected \in messages

\* C5: with an empty selection no session record is output: nothing is
\* filtered or displayed, and the document is not even parsed, so that no
\* record exists at any stage.
C5_EmptySelectionEmptyOutput ==
    my_courses = {} =>
        /\ pc \in {"main", "done"}
        /\ all_classes = <<>>
        /\ schedule_df = <<>>
        /\ my_schedule_df = <<>>
        /\ tables = <<>>

\* C5 witness: the main panel is done with a PDF uploaded, the catalog
\* loaded and nothing selected.
C5_Witness ==
    /\ pc = "done"
    /\ my_courses = {}
    /\ uploaded_pdf
    /\ course_df # None

\* The days of Mon..Sun a text names, case-insensitively, as positions.
DaysNamed(text) ==
    LET low == Lower(text)
    IN  { k \in 1..Len(days) : Contains(low, Lower(days[k])) }

\* The texts of the two vocabularies.
AllTexts == { w.text : w \in WordPool \cup TokenWords }

\* DaysNamed and the outcome of the match, tabulated over the vocabulary, so
\* that a property analyses each text once and not once per state.
NamedTable == [t \in AllTexts |-> DaysNamed(t)]
MatchTable == [t \in AllTexts |-> MatchWord(t) # None]

NamesDay(text) == NamedTable[text] # {}

\* For every scanned word, the day in force at it: the first of Mon..Sun its
\* text names if it names one, else the day in force at the word before it,
\* and "Unknown" when no word up to it names a day. This is the day named by
\* the last day-naming word at or before the word.
RECURSIVE DaysAlong(_)
DaysAlong(f) ==
    IF f = <<>> THEN <<>>
    ELSE LET before == DaysAlong(SubSeq(f, 1, Len(f) - 1))
             named == NamedTable[f[Len(f)].text]
         IN  Append(before,
                    IF named # {} THEN days[CHOOSE k \in named : \A j \in named : k <= j]
                    ELSE IF before = <<>> THEN Unknown
                    ELSE before[Len(before)])

\* The positions of the scanned words that have a match, in scan order.
MatchedPositions(f) ==
    SelectSeq([i \in 1..Len(f) |-> i], LAMBDA i : MatchTable[f[i].text])

\* Number of elements of seq equal to r.
Count(seq, r) == Cardinality({ i \in 1..Len(seq) : seq[i] = r })

\* A record as the returned schedule holds it.
Returned(r) == [r EXCEPT !.Day = IF r.Day \in Range(days) THEN r.Day ELSE NaN]

\* C10: at every point of the scan, the records are those of the scanned
\* words with a match, in scan order, and the Day of each is the day named by
\* the last day-naming word at or before its own word, pages notwithstanding
\* (so no later word changes it); the returned schedule holds the same
\* records, each with that day.
C10_DayIsCausal ==
    \A f \in { Flat(doc) } :
    \A hits \in { MatchedPositions(f) } :
    \A along \in { DaysAlong(f) } :
        /\ Len(all_classes) = Len(hits)
        /\ \A k \in 1..Len(hits) : all_classes[k].Day = along[hits[k]]
        /\ pc \in {"parsed", "done"} =>
              /\ Len(schedule_df) = Len(all_classes)
              /\ \A i \in 1..Len(all_classes) :
                    Count(schedule_df, Returned(all_classes[i]))
                        = Count(all_classes, all_classes[i])

\* C10 witness: the first page holds only a word naming Fri and Wed, the
\* second page a token, and the token's record has the day Wed.
C10_Witness ==
    /\ Len(doc) = 2
    /\ doc[1] = << Word(40, <<"F","R","I","w","e","d">>) >>
    /\ Len(doc[2]) = 1
    /\ ~NamesDay(doc[2][1].text)
    /\ Len(all_classes) = 1
    /\ all_classes[1].Day = <<"W","e","d">>
\* Whether the current iteration of the word loop has appended a record.
Emitted == pc = "scan" /\ word # None /\ match # None /\ all_classes # <<>>

\* C6 (as claimed): when the word just scanned is the example word, a record
\* was appended for it, with the first catalog label at x0 = 140 and with
\* "Unknown" at x0 = 1000.
C6_ExampleWordResolved ==
    (pc = "scan" /\ word # None /\ word.text = ExampleText
                 /\ word.x0 \in {140, 1000}) =>
        /\ Emitted
        /\ Last(all_classes).Time =
              (IF word.x0 = 140 THEN time_slots[1][3] ELSE Unknown)

\* The number of matches CLASS_PATTERN has in a text from position i on,
\* each search starting where the match before it ended.
RECURSIVE CountMatches(_, _)
CountMatches(text, i) ==
    LET m == SearchFrom(text, i)
    IN  IF m = None THEN 0 ELSE 1 + CountMatches(text, m.end)

\* The sum of CountMatches over the words of a sequence.
RECURSIVE TotalMatches(_)
TotalMatches(f) ==
    IF f = <<>> THEN 0
    ELSE TotalMatches(SubSeq(f, 1, Len(f) - 1))
         + CountMatches(Replace(Last(f).text, "\n", <<>>), 1)

\* C7 (as claimed): the scan has appended one record for every substring of
\* every scanned word (newlines removed) that matches the token grammar.
C7_OneRecordPerMatch ==
    Len(all_classes) = TotalMatches(Flat(doc))

\* The parts of the valid tokens that render to a text, tabulated over the
\* vocabulary.
PartsTable == [t \in AllTexts |-> { p \in TokenParts : Render(p) = t }]

PartsOf(text) == PartsTable[text]

\* Whether a record carries the parts p literally: code, section, faculty
\* and the venue as given; the session number is the number p.n denotes.
CarriesParts(r, p, venue) ==
    /\ r.Abbreviation = p.code
    /\ r.Section = p.sec
    /\ r.Session = ParseInt(p.n)
    /\ r.Faculty = p.fac
    /\ r.Venue = venue

\* C8 (as claimed): a word that is a valid token has one record, whose venue
\* is the literal venue substring trimmed of surrounding whitespace.
C8_LiteralFields ==
    LET f == Flat(doc)
    IN  /\ (pc = "scan" /\ word # None) =>
              \A p \in PartsOf(word.text) :
                  Emitted /\ CarriesParts(Last(all_classes), p, Strip(p.venue))
        /\ (\A i \in 1..Len(f) : PartsOf(f[i].text) # {}) =>
              /\ Len(all_classes) = Len(f)
              /\ \A i \in 1..Len(f) : \A p \in PartsOf(f[i].text) :
                    CarriesParts(all_classes[i], p, Strip(p.venue))

\* The venue of a token as the scan reads it: newlines are removed from the
\* word before it is matched, then the venue is trimmed.
ScannedVenue(venue) == Strip(SelectSeq(venue, LAMBDA c : c # "\n"))

\* C8 (amended): a word that is a valid token has exactly one record: the
\* iteration that scans it appends a record with the literal code, section
\* and faculty, the number the session digits denote, and the venue with its
\* newline characters removed and trimmed of surrounding whitespace; and a
\* document of valid tokens only has one such record per word, in scan order.
C8_LiteralFieldsNewlineFree ==
    LET f == Flat(doc)
    IN  /\ (pc = "scan" /\ word # None) =>
              \A p \in PartsOf(word.text) :
                  Emitted /\ CarriesParts(Last(all_classes), p, ScannedVenue(p.venue))
        /\ (\A i \in 1..Len(f) : PartsOf(f[i].text) # {}) =>
              /\ Len(all_classes) = Len(f)
              /\ \A i \in 1..Len(f) : \A p \in PartsOf(f[i].text) :
                    CarriesParts(all_classes[i], p, ScannedVenue(p.venue))

\* C8 witness: the co-taught token A1-B2(07)-AP/PD{ L 3 } was scanned and
\* all_classes holds one record, with faculty AP/PD, session 7, venue "L 3".
C8_Witness ==
    /\ pc = "scan"
    /\ word # None
    /\ word.text = Render([code |-> <<"A","1">>, sec |-> <<"B","2">>,
                           n |-> <<"0","7">>, fac |-> <<"A","P","/","P","D">>,
                           venue |-> <<" ","L"," ","3"," ">>])
    /\ Len(all_classes) = 1
    /\ all_classes[1].Faculty = <<"A","P","/","P","D">>
    /\ all_classes[1].Session = 7
    /\ all_classes[1].Venue = <<"L"," ","3">>

\* The columns whose open interval holds x0.
ColumnsAt(x0) ==
    { k \in 1..Len(time_slots) : time_slots[k][1] < x0 /\ x0 < time_slots[k][2] }

\* C9: the record appended for a matched word has the label of the first
\* column whose open interval holds the word's x0, and "Unknown" (the record
\* being appended all the same) when no column holds it; every record's time
\* slot is a catalog label or "Unknown".
C9_TimeSlotByColumn ==
    /\ (pc = "scan" /\ word # None /\ match # None) =>
          /\ all_classes # <<>>
          /\ Last(all_classes).Time =
                (IF ColumnsAt(word.x0) = {} THEN Unknown
                 ELSE time_slots[CHOOSE k \in ColumnsAt(word.x0) :
                                    \A j \in ColumnsAt(word.x0) : k <= j][3])
    /\ \A i \in 1..Len(all_classes) :
          all_classes[i].Time \in SlotLabels \cup {Unknown}
    /\ \A i \in 1..Len(schedule_df) :
          schedule_df[i].Time \in SlotLabels \cup {Unknown}

\* C9 witness: a token whose x0 is the bound 230 of the first column was
\* scanned, and its record has the time slot "Unknown".
C9_Witness ==
    /\ Emitted
    /\ word.x0 = 230
    /\ Last(all_classes).Time = Unknown
====
